---- MODULE Spec2Model ----
(***************************************************************************)
(* The favorite-state synchronizer of InspireMe (src/src/main.js) with the *)
(* remote procedures of src/database/complete_setup_final.sql.             *)
(*                                                                         *)
(* One principal (the id getUserId returns) and one page session.  The     *)
(* handlers are async functions on one thread: a step of the model is the  *)
(* code that runs between two awaits.  A remote call is issued at the end  *)
(* of one step and answered at the start of the next step of the same      *)
(* handler; the answer is "ok", "error" (the {error} field of the reply is *)
(* set) or "throw" (the awaited promise rejects).  A call that is not      *)
(* answered "ok" has no effect on the database.                            *)
(***************************************************************************)
EXTENDS Integers, Sequences, FiniteSets, TLC

VARIABLES
  useMockData,         \* main.js:21
  quotes,              \* the fetchQuotes call in flight and where quotes came from
  storageFault,        \* what is wrong with window.localStorage, "none" when nothing is
  page,                \* the removeFavorite call of the favorites page in flight
  user,                \* the item inspireme_user_id and the calls of getUserId
  display,             \* displayQuotes: the quote on display and the loop of the choice
  localStorage,        \* the two keys of window.localStorage main.js uses
  user_favorites,      \* quote_id of the rows of user_favorites of the principal
  favoritesRelation,   \* what the database has under the name favorites
  isInFallbackMode,    \* main.js:26
  pendingSyncActions,  \* main.js:27
  syncInProgress,      \* main.js:28
  toggle,              \* the toggleFavorite call in flight
  check,               \* the checkIfFavorited call in flight
  reconnect,           \* the attemptReconnect call in flight
  last,                \* the operation that returned last, and what it returned
  pair                 \* the run of consecutive toggles of one quote

vars == <<useMockData, quotes, storageFault, page, user, display, localStorage, user_favorites, favoritesRelation, isInFallbackMode,
          pendingSyncActions, syncInProgress, toggle, check, reconnect, last, pair>>

\* The quote ids of the model: the two of the spec's scenarios.
Items == {7, 42}

\* pendingSyncActions is unbounded in the code; the model stops queueing here.
MaxPending == 2

\* syncPendingActions reads a relation named favorites (main.js:175), while
\* complete_setup_final.sql creates user_favorites and no relation named
\* favorites.  On the schema of the repository the select is answered with an
\* error ("missing"); the other database of the model has favorites as a view of
\* user_favorites, which is what the loops of syncPendingActions are written for.
FavoritesRelations == {"missing", "view"}

----------------------------------------------------------------------------
\* Arrays

Includes(s, x) == \E i \in 1..Len(s) : s[i] = x

\* Array.prototype.indexOf, 1-based; 0 when absent.
IndexOf(s, x) ==
  IF Includes(s, x) THEN CHOOSE i \in 1..Len(s) : s[i] = x /\ \A j \in 1..(i-1) : s[j] # x
  ELSE 0

\* splice(index, 1)
Splice(s, i) == [j \in 1..(Len(s)-1) |-> IF j < i THEN s[j] ELSE s[j+1]]

Elems(s) == {s[i] : i \in 1..Len(s)}

\* The arrays without a repeated id over Items.
Arrays ==
  {<<>>} \cup {<<x>> : x \in Items}
         \cup {s \in {<<x, y>> : x \in Items, y \in Items} : s[1] # s[2]}

----------------------------------------------------------------------------
\* Local Favorite Store (main.js:41-98)

StorageKey(mock) == IF mock THEN "mock_favorites" ELSE "favorites_user"

getLocalFavorites(ls, mock) == ls[StorageKey(mock)]

setLocalFavorites(ls, mock, favs) == [ls EXCEPT ![StorageKey(mock)] = favs]

\* addLocalFavorite without the test of main.js:64.
addLocalFavoritePush(ls, mock, quoteId) ==
  setLocalFavorites(ls, mock, Append(getLocalFavorites(ls, mock), quoteId))

\* The stored array after addLocalFavorite; it returns true iff the array changed.
addLocalFavorite(ls, mock, quoteId) ==
  LET favs == getLocalFavorites(ls, mock)
  IN  IF ~Includes(favs, quoteId)
      THEN setLocalFavorites(ls, mock, Append(favs, quoteId))
      ELSE ls

\* The value addLocalFavorite returns (main.js:64, 67, 69).
addLocalFavoriteReturn(ls, mock, quoteId) == ~Includes(getLocalFavorites(ls, mock), quoteId)

\* The value removeLocalFavorite returns (main.js:80-81, 84, 86).
removeLocalFavoriteReturn(ls, mock, quoteId) ==
  IndexOf(getLocalFavorites(ls, mock), quoteId) > 0

\* The stored array after removeLocalFavorite; it returns true iff the array changed.
removeLocalFavorite(ls, mock, quoteId) ==
  LET favs == getLocalFavorites(ls, mock)
      index == IndexOf(favs, quoteId)
  IN  IF index > 0
      THEN setLocalFavorites(ls, mock, Splice(favs, index))
      ELSE ls

isLocalFavorite(ls, mock, quoteId) == Includes(getLocalFavorites(ls, mock), quoteId)

\* What can be wrong with window.localStorage, for the whole session:
\*   "invalid"  the item of the principal is not JSON: JSON.parse throws (main.js:43)
\*   "object"   the item is the JSON of an object: getLocalFavorites returns it, and
\*              it has no includes, indexOf or push (main.js:64, 80, 96)
\*   "full"     setItem throws (main.js:53): the quota is exceeded
\* None of the helpers of main.js:41-98 has a try.
StorageFaults == {"none", "invalid", "object", "full"}

isLocalFavoriteThrows(fault) == fault \in {"invalid", "object"}

setLocalFavoritesThrows(fault) == fault = "full"

\* addLocalFavorite writes when the id is absent.
addLocalFavoriteThrows(fault, ls, mock, quoteId) ==
  \/ isLocalFavoriteThrows(fault)
  \/ ~Includes(getLocalFavorites(ls, mock), quoteId) /\ setLocalFavoritesThrows(fault)

\* removeLocalFavorite writes when the id is present.
removeLocalFavoriteThrows(fault, ls, mock, quoteId) ==
  \/ isLocalFavoriteThrows(fault)
  \/ IndexOf(getLocalFavorites(ls, mock), quoteId) > 0 /\ setLocalFavoritesThrows(fault)

\* wasRemoved = removeLocalFavorite(); if (!wasRemoved) addLocalFavorite()
LocalToggleThrows(fault, ls, mock, quoteId) ==
  \/ removeLocalFavoriteThrows(fault, ls, mock, quoteId)
  \/ /\ ~removeLocalFavoriteReturn(ls, mock, quoteId)
     /\ addLocalFavoriteThrows(fault, ls, mock, quoteId)

\* LocalToggle without the call of addLocalFavorite.
LocalToggleRemoveOnly(ls, mock, quoteId) ==
  LET removed == removeLocalFavorite(ls, mock, quoteId)
  IN  [store |-> removed, wasAdded |-> removed = ls]

\* wasRemoved = removeLocalFavorite(); if (!wasRemoved) addLocalFavorite()
\* (main.js:260-269, 276-284, 322-330, 340-345)
LocalToggle(ls, mock, quoteId) ==
  LET removed == removeLocalFavorite(ls, mock, quoteId)
      wasRemoved == removed # ls
  IN  [store |-> IF wasRemoved THEN removed ELSE addLocalFavorite(removed, mock, quoteId),
       wasAdded |-> ~wasRemoved]

\* PendingEntry with the action of an addition for every toggle.
PendingEntryAdd(quoteId, wasAdded) == [quoteId |-> quoteId, action |-> "add"]

\* { quoteId, action: wasAdded ? 'add' : 'remove' }  (main.js:286, 332, 347)
PendingEntry(quoteId, wasAdded) ==
  [quoteId |-> quoteId, action |-> IF wasAdded THEN "add" ELSE "remove"]

----------------------------------------------------------------------------
\* Remote procedures (complete_setup_final.sql:302-333) on the principal's rows

\* INSERT ... ON CONFLICT (user_id, quote_id) DO NOTHING
add_favorite(rows, quoteId) == rows \cup {quoteId}

\* DELETE FROM user_favorites WHERE ...
remove_favorite(rows, quoteId) == rows \ {quoteId}

is_quote_favorited(rows, quoteId) == quoteId \in rows

----------------------------------------------------------------------------
\* No call in flight.  quoteId 0 is no quote.
Idle == [pc |-> "idle", quoteId |-> 0]

\* toggle.wasLocal: the quote was in the Local Store when the call was made.
\* toggle.calls: the calls of toggleFavorite that have not returned.
\* toggle.rejected: the quote of the last click the disabled button took while
\*   the call was in flight; 0 when there was none.
ToggleIdle == [pc |-> "idle", quoteId |-> 0, wasLocal |-> FALSE, calls |-> 0, rejected |-> 0]

ReconnectIdle ==
  [pc |-> "idle", calls |-> 0, degraded |-> FALSE, pending |-> <<>>, net |-> TRUE,
   localFavs |-> <<>>, additions |-> <<>>, removals |-> {}]

NoPair == [quoteId |-> 0, local |-> FALSE, remote |-> FALSE, done |-> 0]

\* last.rejected: the toggle.rejected of the toggleFavorite call that returned.
\* last.again: the attemptReconnect that returned followed a successful one, no
\*   other operation having returned in between.
\* last.hadRow: the remove_favorite of the favorites page deleted a row.
\* last.inSync: the toggle was done on the Local Store alone while a
\*   reconciliation was between its read of the Local Store and its end.
Returned(op, quoteId, ret) ==
  [op |-> op, quoteId |-> quoteId, ret |-> ret, net |-> TRUE, rejected |-> 0, again |-> FALSE,
   inSync |-> FALSE, hadRow |-> FALSE]

\* syncPendingActions is past main.js:170 and has not returned.
SyncHasReadLocal == reconnect.pc \in {"fetch", "additions", "removals"}

\* user.module: the getUserId of the build, of user-utils.js or of part_009.
\* user.item: the item inspireme_user_id of window.localStorage; 0 when absent.
\* user.first: the first principal id of the profile; 0 when none was made yet.
\* user.gen: the call of getUserId that made user.first; 0 when an earlier
\*   session did.
\* user.returned: what the calls of getUserId returned, in their order; 0 for a
\*   call that threw.
\* The synchronizer is modelled for a profile that holds its id: the one
\* principal of the keys favorites_user and of the rows of user_favorites.
OneUser == [module |-> "user-utils.js", item |-> 1, first |-> 1, gen |-> 0, returned |-> <<>>]

\* display.pc: "idle", or "loop" inside the do-while of displayQuotes.
\* display.before: lastDisplayedQuoteId when displayQuotes was called.
\* 0 is null.
NoDisplay ==
  [pc |-> "idle", filteredQuotes |-> <<>>, attempts |-> 0, randomQuote |-> 0,
   lastDisplayedQuoteId |-> 0, currentQuoteId |-> 0, before |-> 0]

\* quotes.pc: "select" while fetchQuotes awaits its select (main.js:392-395).
\* quotes.from: what the last fetchQuotes returned, MOCK_QUOTES ("mock") or the
\*   rows of the database ("remote"); "none" before the first one returns.
NoQuotes == [pc |-> "idle", from |-> "none"]

\* The state main.js is loaded in, but for window.localStorage, the principal
\* and the quote on display.
InitSession ==
  /\ useMockData \in BOOLEAN
  /\ \E a \in Arrays :
       localStorage = [k \in {"mock_favorites", "favorites_user"} |->
                         IF k = StorageKey(useMockData) THEN a ELSE <<>>]
  \* supabase is null without configuration (supabase-client.js:7-10)
  /\ user_favorites \in (IF useMockData THEN {{}} ELSE SUBSET Items)
  /\ favoritesRelation \in (IF useMockData THEN {"missing"} ELSE FavoritesRelations)
  /\ isInFallbackMode = FALSE
  /\ pendingSyncActions = <<>>
  /\ syncInProgress = FALSE
  /\ toggle = ToggleIdle
  /\ check = Idle
  /\ reconnect = ReconnectIdle
  /\ last = Returned("none", 0, FALSE)
  /\ pair = NoPair
  /\ page = Idle

\* The state main.js is loaded in, but for the state of window.localStorage.
InitProgram == InitSession /\ user = OneUser /\ display = NoDisplay /\ quotes = NoQuotes

\* window.localStorage works and holds the JSON of an array, or nothing, which
\* getLocalFavorites reads as [] (main.js:43).
Init == InitProgram /\ storageFault = "none"

----------------------------------------------------------------------------
\* The run of toggles of one quote that no other operation interrupts: the
\* membership of the quote before the first of them, and how many returned.

PairInvoke(quoteId) ==
  IF pair.quoteId = quoteId /\ pair.done = 1
  THEN pair
  ELSE [quoteId |-> quoteId,
        local |-> isLocalFavorite(localStorage, useMockData, quoteId),
        remote |-> is_quote_favorited(user_favorites, quoteId),
        done |-> 0]

PairReturn(p, quoteId) ==
  IF p.quoteId = quoteId THEN [p EXCEPT !.done = @ + 1] ELSE NoPair

----------------------------------------------------------------------------
\* toggleFavorite (main.js:256-350).  The click handler disables the button
\* until the call has settled (main.js:517-543): one call is in flight.

\* main.js:257-270
ToggleMock(quoteId) ==
  /\ toggle.pc = "idle"
  /\ useMockData
  /\ ~LocalToggleThrows(storageFault, localStorage, useMockData, quoteId)
  /\ LET t == LocalToggle(localStorage, useMockData, quoteId)
     IN  /\ localStorage' = t.store
         /\ last' = Returned("toggleMock", quoteId, t.wasAdded)
  /\ pair' = PairReturn(PairInvoke(quoteId), quoteId)
  /\ UNCHANGED <<useMockData, quotes, storageFault, page, user, display, user_favorites, favoritesRelation, isInFallbackMode,
                 pendingSyncActions, syncInProgress, toggle, check, reconnect>>

\* main.js:275-288
ToggleFallback(quoteId) ==
  /\ toggle.pc = "idle"
  /\ ~useMockData
  /\ isInFallbackMode
  /\ ~LocalToggleThrows(storageFault, localStorage, useMockData, quoteId)
  /\ Len(pendingSyncActions) < MaxPending
  /\ LET t == LocalToggle(localStorage, useMockData, quoteId)
     IN  /\ localStorage' = t.store
         /\ pendingSyncActions' = Append(pendingSyncActions, PendingEntry(quoteId, t.wasAdded))
         /\ last' = [Returned("toggleFallback", quoteId, t.wasAdded)
                       EXCEPT !.inSync = SyncHasReadLocal]
  /\ pair' = PairReturn(PairInvoke(quoteId), quoteId)
  /\ UNCHANGED <<useMockData, quotes, storageFault, page, user, display, user_favorites, favoritesRelation, isInFallbackMode,
                 syncInProgress, toggle, check, reconnect>>

\* ToggleStart without the test of isInFallbackMode of main.js:275.
ToggleStartAnyMode(quoteId) ==
  /\ toggle.pc = "idle"
  /\ ~useMockData
  /\ Len(pendingSyncActions) < MaxPending
  /\ toggle' = [pc |-> "add", quoteId |-> quoteId,
                wasLocal |-> isLocalFavorite(localStorage, useMockData, quoteId),
                calls |-> toggle.calls + 1, rejected |-> 0]
  /\ pair' = PairInvoke(quoteId)
  /\ UNCHANGED <<useMockData, quotes, storageFault, page, user, display, localStorage, user_favorites, favoritesRelation, isInFallbackMode,
                 pendingSyncActions, syncInProgress, check, reconnect, last>>

\* main.js:290-295: the call of add_favorite is issued
ToggleStart(quoteId) ==
  /\ toggle.pc = "idle"
  /\ ~useMockData
  /\ ~isInFallbackMode
  /\ Len(pendingSyncActions) < MaxPending
  /\ toggle' = [pc |-> "add", quoteId |-> quoteId,
                wasLocal |-> isLocalFavorite(localStorage, useMockData, quoteId),
                calls |-> toggle.calls + 1, rejected |-> 0]
  /\ pair' = PairInvoke(quoteId)
  /\ UNCHANGED <<useMockData, quotes, storageFault, page, user, display, localStorage, user_favorites, favoritesRelation, isInFallbackMode,
                 pendingSyncActions, syncInProgress, check, reconnect, last>>

\* ToggleAdded without the addLocalFavorite of main.js:300.
ToggleAddedRemoteOnly ==
  /\ toggle.pc = "add"
  /\ user_favorites' = add_favorite(user_favorites, toggle.quoteId)
  /\ last' = [Returned("toggleAdded", toggle.quoteId, TRUE) EXCEPT !.rejected = toggle.rejected]
  /\ toggle' = ToggleIdle
  /\ pair' = PairReturn(pair, toggle.quoteId)
  /\ UNCHANGED <<useMockData, quotes, storageFault, page, user, display, localStorage, favoritesRelation, isInFallbackMode,
                 pendingSyncActions, syncInProgress, check, reconnect>>

\* main.js:297-302: add_favorite returned no error
ToggleAdded ==
  /\ toggle.pc = "add"
  /\ ~addLocalFavoriteThrows(storageFault, localStorage, useMockData, toggle.quoteId)
  /\ user_favorites' = add_favorite(user_favorites, toggle.quoteId)
  /\ localStorage' = addLocalFavorite(localStorage, useMockData, toggle.quoteId)
  /\ last' = [Returned("toggleAdded", toggle.quoteId, TRUE) EXCEPT !.rejected = toggle.rejected]
  /\ toggle' = ToggleIdle
  /\ pair' = PairReturn(pair, toggle.quoteId)
  /\ UNCHANGED <<useMockData, quotes, storageFault, page, user, display, favoritesRelation, isInFallbackMode, pendingSyncActions,
                 syncInProgress, check, reconnect>>

\* main.js:304-308: add_favorite returned an error, remove_favorite is issued
ToggleAddError ==
  /\ toggle.pc = "add"
  /\ toggle' = [toggle EXCEPT !.pc = "remove"]
  /\ UNCHANGED <<useMockData, quotes, storageFault, page, user, display, localStorage, user_favorites, favoritesRelation, isInFallbackMode,
                 pendingSyncActions, syncInProgress, check, reconnect, last, pair>>

\* main.js:310-315: remove_favorite returned no error
ToggleRemoved ==
  /\ toggle.pc = "remove"
  /\ ~removeLocalFavoriteThrows(storageFault, localStorage, useMockData, toggle.quoteId)
  /\ user_favorites' = remove_favorite(user_favorites, toggle.quoteId)
  /\ localStorage' = removeLocalFavorite(localStorage, useMockData, toggle.quoteId)
  /\ last' = [Returned("toggleRemoved", toggle.quoteId, FALSE)
                EXCEPT !.rejected = toggle.rejected]
  /\ toggle' = ToggleIdle
  /\ pair' = PairReturn(pair, toggle.quoteId)
  /\ UNCHANGED <<useMockData, quotes, storageFault, page, user, display, favoritesRelation, isInFallbackMode, pendingSyncActions,
                 syncInProgress, check, reconnect>>

\* main.js:319-333 and 336-348: fallback mode is entered, the toggle is done on
\* the Local Store and queued
EnterFallback(op) ==
  /\ ~LocalToggleThrows(storageFault, localStorage, useMockData, toggle.quoteId)
  /\ isInFallbackMode' = TRUE
  /\ LET t == LocalToggle(localStorage, useMockData, toggle.quoteId)
     IN  /\ localStorage' = t.store
         /\ pendingSyncActions' =
              Append(pendingSyncActions, PendingEntry(toggle.quoteId, t.wasAdded))
         /\ last' = [Returned(op, toggle.quoteId, t.wasAdded)
                       EXCEPT !.rejected = toggle.rejected, !.inSync = SyncHasReadLocal]
  /\ toggle' = ToggleIdle
  /\ pair' = PairReturn(pair, toggle.quoteId)
  /\ UNCHANGED <<useMockData, quotes, storageFault, page, user, display, user_favorites, favoritesRelation, syncInProgress, check,
                 reconnect>>

\* main.js:317-333: remove_favorite returned an error too
ToggleBothFailed ==
  /\ toggle.pc = "remove"
  /\ EnterFallback("toggleBothFailed")

\* main.js:334-349: the call of add_favorite or of remove_favorite threw
ToggleCatch ==
  /\ toggle.pc \in {"add", "remove"}
  /\ EnterFallback("toggleCatch")

\* ToggleClickRejected with the button left enabled: the click calls
\* toggleFavorite, which issues its add_favorite.
ToggleClickReentrant(quoteId) ==
  /\ toggle.pc # "idle"
  /\ toggle.calls < 2
  /\ toggle' = [toggle EXCEPT !.calls = @ + 1]
  /\ UNCHANGED <<useMockData, quotes, storageFault, page, user, display, localStorage, user_favorites, favoritesRelation, isInFallbackMode,
                 pendingSyncActions, syncInProgress, check, reconnect, last, pair>>

\* main.js:522, 541: a click on favoriteBtn between favoriteBtn.disabled = true
\* and the finally of the handler.  A disabled button dispatches no click event:
\* the handler does not run.
ToggleClickRejected(quoteId) ==
  /\ toggle.pc # "idle"
  /\ toggle' = [toggle EXCEPT !.rejected = quoteId]
  /\ UNCHANGED <<useMockData, quotes, storageFault, page, user, display, localStorage, user_favorites, favoritesRelation, isInFallbackMode,
                 pendingSyncActions, syncInProgress, check, reconnect, last, pair>>

----------------------------------------------------------------------------
\* checkIfFavorited (main.js:215-253), called by updateFavoriteButton.  The model
\* has one call at a time waiting for is_quote_favorited.

\* main.js:216-219
CheckMock(quoteId) ==
  /\ useMockData
  /\ ~isLocalFavoriteThrows(storageFault)
  /\ last' = Returned("checkMock", quoteId, isLocalFavorite(localStorage, useMockData, quoteId))
  /\ pair' = NoPair
  /\ UNCHANGED <<useMockData, quotes, storageFault, page, user, display, localStorage, user_favorites, favoritesRelation, isInFallbackMode,
                 pendingSyncActions, syncInProgress, toggle, check, reconnect>>

\* main.js:224-226
CheckFallback(quoteId) ==
  /\ ~useMockData
  /\ isInFallbackMode
  /\ ~isLocalFavoriteThrows(storageFault)
  /\ last' = Returned("checkFallback", quoteId,
                      isLocalFavorite(localStorage, useMockData, quoteId))
  /\ pair' = NoPair
  /\ UNCHANGED <<useMockData, quotes, storageFault, page, user, display, localStorage, user_favorites, favoritesRelation, isInFallbackMode,
                 pendingSyncActions, syncInProgress, toggle, check, reconnect>>

\* main.js:228-234: the call of is_quote_favorited is issued
CheckStart(quoteId) ==
  /\ check.pc = "idle"
  /\ ~useMockData
  /\ ~isInFallbackMode
  /\ check' = [pc |-> "rpc", quoteId |-> quoteId]
  /\ pair' = NoPair
  /\ UNCHANGED <<useMockData, quotes, storageFault, page, user, display, localStorage, user_favorites, favoritesRelation, isInFallbackMode,
                 pendingSyncActions, syncInProgress, toggle, reconnect, last>>

\* main.js:245
CheckReturned ==
  /\ check.pc = "rpc"
  /\ last' = Returned("checkRemote", check.quoteId,
                      is_quote_favorited(user_favorites, check.quoteId))
  /\ check' = Idle
  /\ pair' = NoPair
  /\ UNCHANGED <<useMockData, quotes, storageFault, page, user, display, localStorage, user_favorites, favoritesRelation, isInFallbackMode,
                 pendingSyncActions, syncInProgress, toggle, reconnect>>

\* CheckFailed without isInFallbackMode = true.
CheckFailedStaysOnline(op) ==
  /\ check.pc = "rpc"
  /\ last' = Returned(op, check.quoteId,
                      isLocalFavorite(localStorage, useMockData, check.quoteId))
  /\ check' = Idle
  /\ pair' = NoPair
  /\ UNCHANGED <<useMockData, quotes, storageFault, page, user, display, localStorage, user_favorites, favoritesRelation, isInFallbackMode,
                 pendingSyncActions, syncInProgress, toggle, reconnect>>

\* main.js:236-244 (the reply carries an error) and 246-252 (the call threw)
CheckFailed(op) ==
  /\ check.pc = "rpc"
  /\ ~isLocalFavoriteThrows(storageFault)
  /\ isInFallbackMode' = TRUE
  /\ last' = Returned(op, check.quoteId,
                      isLocalFavorite(localStorage, useMockData, check.quoteId))
  /\ check' = Idle
  /\ pair' = NoPair
  /\ UNCHANGED <<useMockData, quotes, storageFault, page, user, display, localStorage, user_favorites, favoritesRelation,
                 pendingSyncActions, syncInProgress, toggle, reconnect>>

CheckError == CheckFailed("checkError")

CheckCatch == CheckFailed("checkCatch")

----------------------------------------------------------------------------
\* attemptReconnect (main.js:131-163) and syncPendingActions (main.js:166-211)
\*
\* reconnect.calls: the calls that passed the guard of main.js:132 and have not
\*   returned.
\* reconnect.degraded, reconnect.pending: isInFallbackMode and pendingSyncActions
\*   when the call was made.
\* reconnect.net: no remote call of this attempt was answered "error" or "throw"
\*   so far (an error reply for a relation the schema lacks is not one of them).
\* reconnect.localFavs: the const localFavs of syncPendingActions (main.js:170).
\* reconnect.additions: the ids of localFavs the first loop has yet to add, the
\*   head being the call in flight; reconnect.removals: the ids of dbFavIds the
\*   second loop has yet to remove.

\* main.js:132: the early return
ReconnectIgnored ==
  /\ useMockData \/ syncInProgress
  /\ last' = Returned("reconnectIgnored", 0, FALSE)
  /\ pair' = NoPair
  /\ UNCHANGED <<useMockData, quotes, storageFault, page, user, display, localStorage, user_favorites, favoritesRelation, isInFallbackMode,
                 pendingSyncActions, syncInProgress, toggle, check, reconnect>>

\* ReconnectStart without the test of syncInProgress of main.js:132.
ReconnectStartReentrant ==
  /\ ~useMockData
  /\ syncInProgress' = TRUE
  /\ reconnect' = [ReconnectIdle EXCEPT !.pc = "probe", !.calls = reconnect.calls + 1,
                                        !.degraded = isInFallbackMode,
                                        !.pending = pendingSyncActions]
  /\ pair' = NoPair
  /\ UNCHANGED <<useMockData, quotes, storageFault, page, user, display, localStorage, user_favorites, favoritesRelation, isInFallbackMode,
                 pendingSyncActions, toggle, check, last>>

\* main.js:134-143: the probe is issued
ReconnectStart ==
  /\ ~(useMockData \/ syncInProgress)
  /\ syncInProgress' = TRUE
  /\ reconnect' = [ReconnectIdle EXCEPT !.pc = "probe", !.calls = reconnect.calls + 1,
                                        !.degraded = isInFallbackMode,
                                        !.pending = pendingSyncActions]
  /\ pair' = NoPair
  /\ UNCHANGED <<useMockData, quotes, storageFault, page, user, display, localStorage, user_favorites, favoritesRelation, isInFallbackMode,
                 pendingSyncActions, toggle, check, last>>

\* ReconnectFailedAs without the finally of main.js:156-157.
ReconnectFailedAsNoFinally(op, net) ==
  /\ reconnect' = [ReconnectIdle EXCEPT !.calls = reconnect.calls - 1]
  /\ last' = [Returned(op, 0, FALSE) EXCEPT !.net = net]
  /\ pair' = NoPair
  /\ UNCHANGED <<useMockData, quotes, storageFault, page, user, display, localStorage, user_favorites, favoritesRelation, isInFallbackMode,
                 pendingSyncActions, syncInProgress, toggle, check>>

\* main.js:153-162: catch and finally
ReconnectFailedAs(op, net) ==
  /\ syncInProgress' = FALSE
  /\ reconnect' = [ReconnectIdle EXCEPT !.calls = reconnect.calls - 1]
  /\ last' = [Returned(op, 0, FALSE) EXCEPT !.net = net]
  /\ pair' = NoPair
  /\ UNCHANGED <<useMockData, quotes, storageFault, page, user, display, localStorage, user_favorites, favoritesRelation, isInFallbackMode,
                 pendingSyncActions, toggle, check>>

\* The catch met an error of syncPendingActions.
ReconnectFailed(net) == ReconnectFailedAs("reconnectFailed", net)

\* main.js:148-149 and 157-161: syncPendingActions returned
ReconnectSucceeded(net) ==
  /\ isInFallbackMode' = FALSE
  /\ syncInProgress' = FALSE
  /\ reconnect' = [ReconnectIdle EXCEPT !.calls = reconnect.calls - 1]
  /\ last' = [Returned("reconnectOk", 0, TRUE) EXCEPT !.net = net,
                                                     !.again = (last.op = "reconnectOk")]

\* The loops of main.js:184-203 from where they stand up to the next call they
\* issue, or to the end of syncPendingActions (main.js:205) and of attemptReconnect.
SyncContinue(additions, removals, net) ==
  IF additions # <<>> \/ removals # {}
  THEN /\ reconnect' = [reconnect EXCEPT
                          !.pc = IF additions # <<>> THEN "additions" ELSE "removals",
                          !.net = net, !.localFavs = <<>>,
                          !.additions = additions, !.removals = removals]
       /\ UNCHANGED <<isInFallbackMode, pendingSyncActions, syncInProgress, last>>
  ELSE /\ pendingSyncActions' = <<>>
       /\ ReconnectSucceeded(net)

\* ReconnectProbeOk without the test of pendingSyncActions.length of main.js:167.
ReconnectProbeOkAlwaysSync ==
  /\ reconnect.pc = "probe"
  /\ reconnect' = [reconnect EXCEPT
                     !.pc = "fetch",
                     !.localFavs = getLocalFavorites(localStorage, useMockData)]
  /\ pair' = NoPair
  /\ UNCHANGED <<useMockData, quotes, storageFault, page, user, display, localStorage, user_favorites, favoritesRelation, toggle, check,
                 isInFallbackMode, pendingSyncActions, syncInProgress, last>>

\* main.js:145-149, 167-177: the probe returned no error
ReconnectProbeOk ==
  /\ reconnect.pc = "probe"
  /\ IF pendingSyncActions = <<>>
     THEN /\ ReconnectSucceeded(reconnect.net)
          /\ UNCHANGED pendingSyncActions
     ELSE /\ reconnect' = [reconnect EXCEPT
                             !.pc = "fetch",
                             !.localFavs = getLocalFavorites(localStorage, useMockData)]
          /\ UNCHANGED <<isInFallbackMode, pendingSyncActions, syncInProgress, last>>
  /\ pair' = NoPair
  /\ UNCHANGED <<useMockData, quotes, storageFault, page, user, display, localStorage, user_favorites, favoritesRelation, toggle, check>>

\* ReconnectProbeFailed with isInFallbackMode = false of main.js:148 moved to the
\* finally.
ReconnectProbeFailedClears ==
  /\ reconnect.pc = "probe"
  /\ isInFallbackMode' = FALSE
  /\ syncInProgress' = FALSE
  /\ reconnect' = [ReconnectIdle EXCEPT !.calls = reconnect.calls - 1]
  /\ last' = [Returned("reconnectProbeFailed", 0, FALSE) EXCEPT !.net = FALSE]
  /\ pair' = NoPair
  /\ UNCHANGED <<useMockData, quotes, storageFault, page, user, display, localStorage, user_favorites, favoritesRelation,
                 pendingSyncActions, toggle, check>>

\* main.js:150-152 (the probe returned an error) or the probe threw
ReconnectProbeFailed ==
  /\ reconnect.pc = "probe"
  /\ ReconnectFailedAs("reconnectProbeFailed", FALSE)

\* .from('favorites').select('quote_id').eq('user_id', userId)  (main.js:174-177):
\* the {data, error} of the reply when the network did not fail
SelectFavorites(relation, rows) ==
  IF relation = "view"
  THEN [error |-> FALSE, data |-> rows]
  ELSE [error |-> TRUE, data |-> {}]

\* SyncFetchOk without the test of main.js:185.
SyncFetchOkAddAll ==
  /\ reconnect.pc = "fetch"
  /\ ~SelectFavorites(favoritesRelation, user_favorites).error
  /\ LET dbFavIds == SelectFavorites(favoritesRelation, user_favorites).data
         localFavs == reconnect.localFavs
     IN  SyncContinue(localFavs, {q \in dbFavIds : ~Includes(localFavs, q)}, reconnect.net)
  /\ pair' = NoPair
  /\ UNCHANGED <<useMockData, quotes, storageFault, page, user, display, localStorage, user_favorites,
                 favoritesRelation, toggle, check>>

\* main.js:179-192: the select returned rows
SyncFetchOk ==
  /\ reconnect.pc = "fetch"
  /\ ~SelectFavorites(favoritesRelation, user_favorites).error
  /\ LET dbFavIds == SelectFavorites(favoritesRelation, user_favorites).data
         localFavs == reconnect.localFavs
     IN  SyncContinue(SelectSeq(localFavs, LAMBDA q : q \notin dbFavIds),
                      {q \in dbFavIds : ~Includes(localFavs, q)},
                      reconnect.net)
  /\ pair' = NoPair
  /\ UNCHANGED <<useMockData, quotes, storageFault, page, user, display, localStorage, user_favorites, favoritesRelation, toggle, check>>

\* main.js:179: the select returned an error, the schema having no such relation
SyncFetchNoRelation ==
  /\ reconnect.pc = "fetch"
  /\ SelectFavorites(favoritesRelation, user_favorites).error
  /\ ReconnectFailed(reconnect.net)

\* main.js:179, 207-209: the select returned another error, or threw
SyncFetchFailed ==
  /\ reconnect.pc = "fetch"
  /\ ReconnectFailed(FALSE)

\* main.js:186-190: add_favorite was done
SyncAdditionOk ==
  /\ reconnect.pc = "additions"
  /\ user_favorites' = add_favorite(user_favorites, Head(reconnect.additions))
  /\ SyncContinue(Tail(reconnect.additions), reconnect.removals, reconnect.net)
  /\ pair' = NoPair
  /\ UNCHANGED <<useMockData, quotes, storageFault, page, user, display, localStorage, favoritesRelation, toggle, check>>

\* main.js:186-190: the reply of add_favorite carries an error, which is not read
SyncAdditionError ==
  /\ reconnect.pc = "additions"
  /\ SyncContinue(Tail(reconnect.additions), reconnect.removals, FALSE)
  /\ pair' = NoPair
  /\ UNCHANGED <<useMockData, quotes, storageFault, page, user, display, localStorage, user_favorites, favoritesRelation, toggle, check>>

\* main.js:207-209: add_favorite threw
SyncAdditionCatch ==
  /\ reconnect.pc = "additions"
  /\ ReconnectFailed(FALSE)

\* main.js:195-203: remove_favorite was done.  A Set is iterated in the order of
\* the rows of the reply, which the select leaves open.
SyncRemovalOk ==
  /\ reconnect.pc = "removals"
  /\ \E q \in reconnect.removals :
       /\ user_favorites' = remove_favorite(user_favorites, q)
       /\ SyncContinue(<<>>, reconnect.removals \ {q}, reconnect.net)
  /\ pair' = NoPair
  /\ UNCHANGED <<useMockData, quotes, storageFault, page, user, display, localStorage, favoritesRelation, toggle, check>>

\* main.js:197-200: the reply of remove_favorite carries an error, which is not read
SyncRemovalError ==
  /\ reconnect.pc = "removals"
  /\ \E q \in reconnect.removals :
       SyncContinue(<<>>, reconnect.removals \ {q}, FALSE)
  /\ pair' = NoPair
  /\ UNCHANGED <<useMockData, quotes, storageFault, page, user, display, localStorage, user_favorites, favoritesRelation, toggle, check>>

\* main.js:207-209: remove_favorite threw
SyncRemovalCatch ==
  /\ reconnect.pc = "removals"
  /\ ReconnectFailed(FALSE)

----------------------------------------------------------------------------
Next ==
  \/ \E quoteId \in Items : ToggleMock(quoteId)
  \/ \E quoteId \in Items : ToggleFallback(quoteId)
  \/ \E quoteId \in Items : ToggleStart(quoteId)
  \/ ToggleAdded
  \/ ToggleAddError
  \/ ToggleRemoved
  \/ ToggleBothFailed
  \/ ToggleCatch
  \/ \E quoteId \in Items : ToggleClickRejected(quoteId)
  \/ \E quoteId \in Items : CheckMock(quoteId)
  \/ \E quoteId \in Items : CheckFallback(quoteId)
  \/ \E quoteId \in Items : CheckStart(quoteId)
  \/ CheckReturned
  \/ CheckError
  \/ CheckCatch
  \/ ReconnectIgnored
  \/ ReconnectStart
  \/ ReconnectProbeOk
  \/ ReconnectProbeFailed
  \/ SyncFetchOk
  \/ SyncFetchNoRelation
  \/ SyncFetchFailed
  \/ SyncAdditionOk
  \/ SyncAdditionError
  \/ SyncAdditionCatch
  \/ SyncRemovalOk
  \/ SyncRemovalError
  \/ SyncRemovalCatch

Spec == Init /\ [][Next]_vars

\* The sessions that start with the Local Store and the remote set equal.
InitEqual == Init /\ Elems(getLocalFavorites(localStorage, useMockData)) = user_favorites

SpecEqual == InitEqual /\ [][Next]_vars

----------------------------------------------------------------------------
\* The handlers when a helper of the Local Store throws.  The exception leaves
\* toggleFavorite or checkIfFavorited for its caller: last.op is "toggleThrew" or
\* "checkThrew".  A setItem that throws stores nothing.

\* main.js:257-270: no try around the helpers
ToggleMockThrows(quoteId) ==
  /\ toggle.pc = "idle"
  /\ useMockData
  /\ LocalToggleThrows(storageFault, localStorage, useMockData, quoteId)
  /\ last' = Returned("toggleThrew", quoteId, FALSE)
  /\ pair' = NoPair
  /\ UNCHANGED <<useMockData, quotes, storageFault, page, user, display, localStorage, user_favorites,
                 favoritesRelation, isInFallbackMode, pendingSyncActions, syncInProgress,
                 toggle, check, reconnect>>

\* main.js:275-288: no try around the helpers; the push of main.js:286 is not reached
ToggleFallbackThrows(quoteId) ==
  /\ toggle.pc = "idle"
  /\ ~useMockData
  /\ isInFallbackMode
  /\ LocalToggleThrows(storageFault, localStorage, useMockData, quoteId)
  /\ last' = Returned("toggleThrew", quoteId, FALSE)
  /\ pair' = NoPair
  /\ UNCHANGED <<useMockData, quotes, storageFault, page, user, display, localStorage, user_favorites,
                 favoritesRelation, isInFallbackMode, pendingSyncActions, syncInProgress,
                 toggle, check, reconnect>>

\* main.js:334-349: the catch takes the exception of a helper for a remote
\* failure, sets isInFallbackMode and runs the helpers again, which throw again:
\* the store is as it was
ToggleThrows ==
  /\ isInFallbackMode' = TRUE
  /\ last' = [Returned("toggleThrew", toggle.quoteId, FALSE) EXCEPT !.rejected = toggle.rejected]
  /\ toggle' = ToggleIdle
  /\ pair' = NoPair
  /\ UNCHANGED <<useMockData, quotes, storageFault, page, user, display, localStorage, favoritesRelation,
                 pendingSyncActions, syncInProgress, check, reconnect>>

\* main.js:297-300: add_favorite was done, addLocalFavorite throws
ToggleAddedThrows ==
  /\ toggle.pc = "add"
  /\ addLocalFavoriteThrows(storageFault, localStorage, useMockData, toggle.quoteId)
  /\ user_favorites' = add_favorite(user_favorites, toggle.quoteId)
  /\ ToggleThrows

\* main.js:310-313: remove_favorite was done, removeLocalFavorite throws
ToggleRemovedThrows ==
  /\ toggle.pc = "remove"
  /\ removeLocalFavoriteThrows(storageFault, localStorage, useMockData, toggle.quoteId)
  /\ user_favorites' = remove_favorite(user_favorites, toggle.quoteId)
  /\ ToggleThrows

\* main.js:317-322: both calls returned an error, removeLocalFavorite or
\* addLocalFavorite throws
ToggleBothFailedThrows ==
  /\ toggle.pc = "remove"
  /\ LocalToggleThrows(storageFault, localStorage, useMockData, toggle.quoteId)
  /\ UNCHANGED user_favorites
  /\ ToggleThrows

\* main.js:334-345: a remote call threw, a helper throws in the catch
ToggleCatchThrows ==
  /\ toggle.pc \in {"add", "remove"}
  /\ LocalToggleThrows(storageFault, localStorage, useMockData, toggle.quoteId)
  /\ UNCHANGED user_favorites
  /\ ToggleThrows

\* main.js:216-219
CheckMockThrows(quoteId) ==
  /\ useMockData
  /\ isLocalFavoriteThrows(storageFault)
  /\ last' = Returned("checkThrew", quoteId, FALSE)
  /\ pair' = NoPair
  /\ UNCHANGED <<useMockData, quotes, storageFault, page, user, display, localStorage, user_favorites,
                 favoritesRelation, isInFallbackMode, pendingSyncActions, syncInProgress,
                 toggle, check, reconnect>>

\* main.js:224-226
CheckFallbackThrows(quoteId) ==
  /\ ~useMockData
  /\ isInFallbackMode
  /\ isLocalFavoriteThrows(storageFault)
  /\ last' = Returned("checkThrew", quoteId, FALSE)
  /\ pair' = NoPair
  /\ UNCHANGED <<useMockData, quotes, storageFault, page, user, display, localStorage, user_favorites,
                 favoritesRelation, isInFallbackMode, pendingSyncActions, syncInProgress,
                 toggle, check, reconnect>>

\* main.js:236-252: is_quote_favorited failed; isLocalFavorite throws at
\* main.js:243 into the catch, or in the catch at main.js:251
CheckFailedThrows ==
  /\ check.pc = "rpc"
  /\ isLocalFavoriteThrows(storageFault)
  /\ isInFallbackMode' = TRUE
  /\ last' = Returned("checkThrew", check.quoteId, FALSE)
  /\ check' = Idle
  /\ pair' = NoPair
  /\ UNCHANGED <<useMockData, quotes, storageFault, page, user, display, localStorage, user_favorites,
                 favoritesRelation, pendingSyncActions, syncInProgress, toggle, reconnect>>

\* The sessions with any state of window.localStorage.  An item that does not
\* hold an array stands in localStorage as the array the spec reads it as.
InitStorage ==
  /\ InitProgram
  /\ storageFault \in StorageFaults
  /\ isLocalFavoriteThrows(storageFault) => getLocalFavorites(localStorage, useMockData) = <<>>

NextStorage ==
  \/ Next
  \/ \E quoteId \in Items : ToggleMockThrows(quoteId)
  \/ \E quoteId \in Items : ToggleFallbackThrows(quoteId)
  \/ ToggleAddedThrows
  \/ ToggleRemovedThrows
  \/ ToggleBothFailedThrows
  \/ ToggleCatchThrows
  \/ \E quoteId \in Items : CheckMockThrows(quoteId)
  \/ \E quoteId \in Items : CheckFallbackThrows(quoteId)
  \/ CheckFailedThrows

SpecStorage == InitStorage /\ [][NextStorage]_vars

----------------------------------------------------------------------------
\* The favorites page (tag-suggestions.js): removeFavorite, called by
\* handleRemoveFavorite.  The page has no isInFallbackMode and no
\* pendingSyncActions, and reads its useMockData from the same configuration.

\* tag-suggestions.js:760-766
PageRemoveMock(quoteId) ==
  /\ useMockData
  /\ localStorage' =
       [localStorage EXCEPT !["mock_favorites"] = SelectSeq(@, LAMBDA id : id # quoteId)]
  /\ last' = Returned("pageRemoved", quoteId, TRUE)
  /\ pair' = NoPair
  /\ UNCHANGED <<useMockData, quotes, storageFault, page, user, display, user_favorites, favoritesRelation,
                 isInFallbackMode, pendingSyncActions, syncInProgress, toggle, check,
                 reconnect>>

\* tag-suggestions.js:768-774: the call of remove_favorite is issued
PageRemoveStart(quoteId) ==
  /\ ~useMockData
  /\ page.pc = "idle"
  /\ page' = [pc |-> "rpc", quoteId |-> quoteId]
  /\ pair' = NoPair
  /\ UNCHANGED <<useMockData, quotes, storageFault, user, display, localStorage, user_favorites, favoritesRelation,
                 isInFallbackMode, pendingSyncActions, syncInProgress, toggle, check,
                 reconnect, last>>

\* tag-suggestions.js:780, 905-910: remove_favorite was done, the list is fetched
\* again
PageRemoved ==
  /\ page.pc = "rpc"
  /\ user_favorites' = remove_favorite(user_favorites, page.quoteId)
  /\ last' = [Returned("pageRemoved", page.quoteId, TRUE)
                EXCEPT !.hadRow = page.quoteId \in user_favorites]
  /\ page' = Idle
  /\ pair' = NoPair
  /\ UNCHANGED <<useMockData, quotes, storageFault, user, display, localStorage, favoritesRelation, isInFallbackMode,
                 pendingSyncActions, syncInProgress, toggle, check, reconnect>>

\* showErrorMessage('Failed to remove favorite. Please try again.')
\* (tag-suggestions.js:911-919)
PageRemoveFailed ==
  /\ page.pc = "rpc"
  /\ last' = Returned("pageRemoveFailed", page.quoteId, FALSE)
  /\ page' = Idle
  /\ pair' = NoPair
  /\ UNCHANGED <<useMockData, quotes, storageFault, user, display, localStorage, user_favorites, favoritesRelation,
                 isInFallbackMode, pendingSyncActions, syncInProgress, toggle, check,
                 reconnect>>

\* tag-suggestions.js:776-779: the reply carries an error, removeFavorite returns false
PageRemoveError == PageRemoveFailed

\* tag-suggestions.js:781-784, 916-919: the call threw, removeFavorite throws
PageRemoveCatch == PageRemoveFailed

NextPage ==
  \/ Next
  \/ \E quoteId \in Items : PageRemoveMock(quoteId)
  \/ \E quoteId \in Items : PageRemoveStart(quoteId)
  \/ PageRemoved
  \/ PageRemoveError
  \/ PageRemoveCatch

\* The session of main.js with the favorites page open beside it.
SpecPage == Init /\ [][NextPage]_vars

----------------------------------------------------------------------------
\* getUserId (user-utils.js:11-32, which main.js imports, and the one of
\* unnamed/part_009:11-35).  An id user_<timestamp>_<random> is one of UserIds,
\* whichever the clock and the random source give.  setItem throws when the
\* storage is full.

UserIds == {1, 2, 3, 4}

\* The calls of getUserId of a behaviour of SpecUser.
MaxCalls == 3

\* The call returned id (0: it threw), having made the id made if none was before.
UserCalled(id, made, item) ==
  [user EXCEPT !.item = item,
               !.first = IF user.first = 0 THEN made ELSE @,
               !.gen = IF user.first = 0 THEN Len(user.returned) + 1 ELSE @,
               !.returned = Append(@, id)]

UserFrame ==
  UNCHANGED <<useMockData, quotes, storageFault, page, display, localStorage, user_favorites,
              favoritesRelation, isInFallbackMode, pendingSyncActions, syncInProgress,
              toggle, check, reconnect, last, pair>>

\* user-utils.js:13, 31: the item is there
getUserIdStored ==
  /\ Len(user.returned) < MaxCalls
  /\ user.item # 0
  /\ user' = UserCalled(user.item, user.item, user.item)
  /\ UserFrame

\* user-utils.js:15-31: the item is absent, an id is made and stored
getUserIdCreated(id) ==
  /\ Len(user.returned) < MaxCalls
  /\ user.item = 0
  /\ ~setLocalFavoritesThrows(storageFault)
  /\ user' = UserCalled(id, id, id)
  /\ UserFrame

\* user-utils.js:15-24: the item is absent, an id is made, setItem throws and
\* nothing catches
getUserIdThrows(id) ==
  /\ user.module = "user-utils.js"
  /\ Len(user.returned) < MaxCalls
  /\ user.item = 0
  /\ setLocalFavoritesThrows(storageFault)
  /\ user' = UserCalled(0, id, 0)
  /\ UserFrame

\* part_009:17-22, 30-33: the item is absent, setItem throws, the catch returns
\* an id made for the call
getUserIdTemporary(id) ==
  /\ user.module = "part_009"
  /\ Len(user.returned) < MaxCalls
  /\ user.item = 0
  /\ setLocalFavoritesThrows(storageFault)
  /\ user' = UserCalled(id, id, 0)
  /\ UserFrame

\* A profile with or without its id, a storage that takes writes or is full,
\* either getUserId; the rest is a session in mock mode with no favorite.
InitUser ==
  /\ InitSession
  /\ useMockData
  /\ getLocalFavorites(localStorage, useMockData) = <<>>
  /\ storageFault \in {"none", "full"}
  /\ display = NoDisplay
  /\ quotes = NoQuotes
  /\ \E module \in {"user-utils.js", "part_009"}, item \in {0} \cup UserIds :
       user = [module |-> module, item |-> item, first |-> item, gen |-> 0,
               returned |-> <<>>]

NextUser ==
  \/ getUserIdStored
  \/ \E id \in UserIds : getUserIdCreated(id)
  \/ \E id \in UserIds : getUserIdThrows(id)
  \/ \E id \in UserIds : getUserIdTemporary(id)

SpecUser == InitUser /\ [][NextUser]_vars

----------------------------------------------------------------------------
\* Properties

LocalSet == Elems(getLocalFavorites(localStorage, useMockData))

InLocal(quoteId) == Includes(getLocalFavorites(localStorage, useMockData), quoteId)

InLocalNext(quoteId) == Includes(getLocalFavorites(localStorage', useMockData'), quoteId)

\* No toggle returned and none is in flight since the reconnect in flight was called.
NoToggleSinceReconnect == toggle.pc = "idle" /\ reconnect.pending = pendingSyncActions

\* A toggleFavorite call that went remote returns in this step.
ToggleReturns == toggle.pc # "idle" /\ toggle'.pc = "idle"

\* An attemptReconnect call that passed the guard returns in this step.
ReconnectReturns == reconnect.pc # "idle" /\ reconnect'.pc = "idle"

\* C1: two consecutive completed toggleFavorite(i) calls with nothing in between
\* leave the membership of i as it was before the first; online with the remote
\* succeeding, toggling a favorited i removes it from the remote set and the
\* Local Store and returns false.
C1_ToggleTwiceRestores ==
  /\ pair.done = 2 =>
       /\ InLocal(pair.quoteId) = pair.local
       /\ (~useMockData /\ ~isInFallbackMode) =>
            is_quote_favorited(user_favorites, pair.quoteId) = pair.remote
  /\ (pair.done = 1 /\ last.op = "toggleAdded" /\ pair.local /\ pair.remote) =>
       /\ ~is_quote_favorited(user_favorites, pair.quoteId)
       /\ ~InLocal(pair.quoteId)
       /\ last.ret = FALSE

\* C2: a toggleFavorite(i) called online whose remote calls all fail returns with
\* degraded true, the local membership of i flipped, one entry {i, action} appended
\* to pendingOps with action add iff i is now a local favorite, the new local
\* membership as its value, and the remote set as it was.
C2_FailedToggleFallsBack ==
  [][ /\ (ToggleBothFailed \/ ToggleCatch) =>
           /\ isInFallbackMode'
           /\ InLocalNext(toggle.quoteId) = ~toggle.wasLocal
           /\ pendingSyncActions' =
                Append(pendingSyncActions,
                       [quoteId |-> toggle.quoteId,
                        action |-> IF InLocalNext(toggle.quoteId) THEN "add" ELSE "remove"])
           /\ last'.ret = InLocalNext(toggle.quoteId)
           /\ last'.quoteId = toggle.quoteId
           /\ user_favorites' = user_favorites
      /\ ToggleAddError =>
           /\ user_favorites' = user_favorites
           /\ pendingSyncActions' = pendingSyncActions
           /\ localStorage' = localStorage
    ]_vars

\* Scenario B: the failed toggle of 42 from empty sets.
C2_Witness ==
  /\ last.op \in {"toggleBothFailed", "toggleCatch"}
  /\ last.quoteId = 42 /\ last.ret = TRUE
  /\ isInFallbackMode
  /\ getLocalFavorites(localStorage, useMockData) = <<42>>
  /\ pendingSyncActions = <<[quoteId |-> 42, action |-> "add"]>>
  /\ user_favorites = {}

\* C3: when a remote call of toggleFavorite or checkIfFavorited fails, degraded is
\* true when the operation returns, and it returns the Local Store's answer.
C3_AnyRemoteFailureDegrades ==
  [][ ( \/ (ToggleReturns /\ toggle.pc = "remove")
        \/ ToggleCatch
        \/ CheckError
        \/ CheckCatch )
      => /\ isInFallbackMode'
         /\ last'.ret = InLocalNext(last'.quoteId)
    ]_vars

\* C4: a reconnect made while degraded whose probe and remote calls all succeed
\* ends with the remote set equal to the local set, the Local Store as it was,
\* pendingOps empty and degraded false, whatever pendingOps held.
C4_ReconnectConverges ==
  [][ ( /\ ReconnectReturns /\ reconnect.degraded /\ NoToggleSinceReconnect
        /\ last'.op = "reconnectOk" /\ last'.net )
      => /\ user_favorites' = LocalSet'
         /\ localStorage' = localStorage
         /\ pendingSyncActions' = <<>>
         /\ ~isInFallbackMode'
    ]_vars

C6_ScenarioD ==
  [][ ( /\ ReconnectReturns
        /\ last'.net
        /\ getLocalFavorites(localStorage, useMockData) = <<42, 7>>
        /\ pendingSyncActions = <<[quoteId |-> 42, action |-> "add"],
                                  [quoteId |-> 7, action |-> "add"]>>
        /\ user_favorites = {} )
      => /\ user_favorites' = {42, 7}
         /\ ~isInFallbackMode'
         /\ pendingSyncActions' = <<>>
    ]_vars

CheckOps == {"checkMock", "checkFallback", "checkRemote", "checkError", "checkCatch"}

\* A call of toggleFavorite made in this step, with none waiting for a reply
\* before it, that returns in this step: only a toggle writes the Local Store.
ToggleCalledAndReturned ==
  toggle.pc = "idle" /\ toggle'.pc = "idle" /\ localStorage' # localStorage

\* A call of checkIfFavorited made in this step that returns in this step.
CheckCalledAndReturned == check' = check /\ last' # last /\ last'.op \in CheckOps

\* C7, as stated: while degraded, toggleFavorite and checkIfFavorited issue no
\* remote call, a toggle changes the Local Store and pendingOps only, and only the
\* reconnect contacts the remote.
C7_NoRemoteCallWhileDegraded ==
  [][ (isInFallbackMode /\ ~useMockData) =>
        /\ ~(toggle'.pc \in {"add", "remove"} /\ toggle'.pc # toggle.pc)
        /\ ~(check'.pc = "rpc" /\ check.pc # "rpc")
        /\ user_favorites' # user_favorites => reconnect.pc \in {"additions", "removals"}
    ]_vars

\* C7, as amended: a toggleFavorite or checkIfFavorited call made while degraded
\* issues no remote call; the toggle flips the quote in the Local Store and appends
\* its entry to pendingOps, the check answers from the Local Store and changes
\* nothing; the remote set changes only by the reconnect or by a toggle that was
\* called before the degradation.
C7_DegradedCallsStayLocal ==
  [][ (isInFallbackMode /\ ~useMockData) =>
        /\ toggle.pc = "idle" => toggle'.pc = "idle"
        /\ check.pc = "idle" => check'.pc = "idle"
        /\ ToggleCalledAndReturned =>
             /\ \E q \in Items :
                  /\ InLocalNext(q) # InLocal(q)
                  /\ \A r \in Items \ {q} : InLocalNext(r) = InLocal(r)
                  /\ pendingSyncActions' =
                       Append(pendingSyncActions,
                              [quoteId |-> q,
                               action |-> IF InLocalNext(q) THEN "add" ELSE "remove"])
             /\ UNCHANGED <<user_favorites, isInFallbackMode, reconnect, check>>
        /\ CheckCalledAndReturned =>
             /\ last'.ret = InLocal(last'.quoteId)
             /\ UNCHANGED <<localStorage, user_favorites, pendingSyncActions,
                            isInFallbackMode, toggle, reconnect>>
        /\ user_favorites' # user_favorites =>
             \/ reconnect.pc \in {"additions", "removals"}
             \/ toggle.pc \in {"add", "remove"}
    ]_vars

\* A toggle and a check made while degraded, pendingOps holding the toggle.
C7_Witness ==
  /\ isInFallbackMode /\ ~useMockData
  /\ last.op = "checkFallback" /\ last.ret = TRUE /\ last.quoteId = 7
  /\ toggle.pc = "idle" /\ check.pc = "idle"
  /\ Len(pendingSyncActions) = 2
  /\ pendingSyncActions[2] = [quoteId |-> 7, action |-> "add"]
  /\ 7 \notin user_favorites

\* C8: checkIfFavorited(i) returns the remote membership of i when it is called
\* online and the query succeeds; when the query fails it sets degraded and returns
\* the local membership; called while degraded it returns the local membership;
\* degraded stays true, and the queries local, until a reconnect succeeds.
C8_CheckAnswers ==
  [][ /\ CheckReturned =>
           /\ last'.ret = (check.quoteId \in user_favorites)
           /\ last'.quoteId = check.quoteId
           /\ isInFallbackMode' = isInFallbackMode
      /\ (CheckError \/ CheckCatch) =>
           /\ isInFallbackMode'
           /\ last'.ret = InLocal(check.quoteId)
           /\ last'.quoteId = check.quoteId
      /\ (isInFallbackMode /\ ~useMockData) =>
           /\ check.pc = "idle" => check'.pc = "idle"
           /\ CheckCalledAndReturned => last'.ret = InLocal(last'.quoteId)
      /\ (isInFallbackMode /\ ~isInFallbackMode') =>
           (ReconnectReturns /\ last'.op = "reconnectOk")
    ]_vars

\* A failed query answered from the Local Store, which differs from the remote.
C8_Witness ==
  /\ last.op \in {"checkError", "checkCatch"}
  /\ isInFallbackMode
  /\ last.ret = InLocal(last.quoteId)
  /\ last.ret # (last.quoteId \in user_favorites)

C10_ReconnectNotReentrant ==
  [][ /\ reconnect'.calls <= 1
      /\ syncInProgress' = (reconnect'.calls = 1)
      /\ syncInProgress =>
           /\ reconnect'.pc = "probe" => reconnect.pc = "probe"
           /\ (last' # last /\ last'.op = "reconnectIgnored") =>
                UNCHANGED <<reconnect, syncInProgress, isInFallbackMode, pendingSyncActions,
                            localStorage, user_favorites, toggle, check>>
    ]_vars

\* A reconnect call was ignored, and the attempt it met is in its reconciliation.
C10_Witness ==
  /\ last.op = "reconnectIgnored"
  /\ syncInProgress
  /\ reconnect.pc \in {"fetch", "additions", "removals"}
  /\ isInFallbackMode /\ pendingSyncActions # <<>>

----------------------------------------------------------------------------
\* toggleFavorite (main.js:256-350) run from call to return with no other handler
\* in between, on st = [ls, rows, fallback, pending].  reply: "ok" when
\* add_favorite returns no error, "addError" when it returns an error and
\* remove_favorite none, "fail" when both return an error or one of them throws.
ToggleReplies == {"ok", "addError", "fail"}

toggleFavorite(st, quoteId, reply) ==
  LET t == LocalToggle(st.ls, FALSE, quoteId)
      local == [st EXCEPT !.ls = t.store,
                          !.pending = Append(@, PendingEntry(quoteId, t.wasAdded))]
  IN  IF st.fallback THEN local
      ELSE IF reply = "ok"
           THEN [st EXCEPT !.rows = add_favorite(@, quoteId),
                           !.ls = addLocalFavorite(@, FALSE, quoteId)]
      ELSE IF reply = "addError"
           THEN [st EXCEPT !.rows = remove_favorite(@, quoteId),
                           !.ls = removeLocalFavorite(@, FALSE, quoteId)]
      ELSE [local EXCEPT !.fallback = TRUE]

\* The Local Store set, the remote set and pendingOps of st.
Outcome(st) ==
  [local |-> Elems(getLocalFavorites(st.ls, FALSE)), remote |-> st.rows, pending |-> st.pending]

Now ==
  [ls |-> localStorage, rows |-> user_favorites, fallback |-> isInFallbackMode,
   pending |-> pendingSyncActions]

NowNext ==
  [ls |-> localStorage', rows |-> user_favorites', fallback |-> isInFallbackMode',
   pending |-> pendingSyncActions']

\* The toggleFavorite(i) call in flight returns in this step, a second request on
\* i was made while it was in flight, and no other operation ran since the call.
SecondRequestSettles ==
  /\ ToggleReturns
  /\ toggle.rejected = toggle.quoteId
  /\ pair.quoteId = toggle.quoteId

\* C11, as stated: two toggle requests on i, the second made before the first
\* settled, end with the Local Store set, the remote set and pendingOps of two
\* toggles of i run one after the other.
C11_ConcurrentTogglesAsSequential ==
  [][ SecondRequestSettles =>
        \E r1 \in ToggleReplies, r2 \in ToggleReplies :
          Outcome(NowNext) =
            Outcome(toggleFavorite(toggleFavorite(Now, toggle.quoteId, r1), toggle.quoteId, r2))
    ]_vars

\* C11, as amended: the second request is rejected.  At most one toggleFavorite
\* call is in flight, so no two remote calls of toggles are; the rejected request
\* changes nothing; the two requests end with the Local Store set, the remote set
\* and pendingOps of one toggle of i, pendingOps having got at most one entry.
C11_SecondToggleRejected ==
  [][ /\ toggle'.calls <= 1
      /\ (toggle.pc # "idle") = (toggle.calls = 1)
      /\ (toggle.pc # "idle" /\ toggle'.rejected # toggle.rejected /\ toggle'.pc # "idle") =>
           /\ toggle' = [toggle EXCEPT !.rejected = toggle'.rejected]
           /\ UNCHANGED <<localStorage, user_favorites, isInFallbackMode, pendingSyncActions,
                          check, reconnect, last>>
      /\ SecondRequestSettles =>
           /\ \E r \in ToggleReplies :
                Outcome(NowNext) = Outcome(toggleFavorite(Now, toggle.quoteId, r))
           /\ \/ pendingSyncActions' = pendingSyncActions
              \/ \E a \in {"add", "remove"} :
                   pendingSyncActions' =
                     Append(pendingSyncActions, [quoteId |-> toggle.quoteId, action |-> a])
    ]_vars

\* A toggle of 42 that failed over to the Local Store, a second request on 42
\* having been made before it settled: one entry in pendingOps.
C11_Witness ==
  /\ last.op \in {"toggleBothFailed", "toggleCatch"}
  /\ last.quoteId = 42 /\ last.rejected = 42
  /\ pair.quoteId = 42
  /\ isInFallbackMode
  /\ pendingSyncActions = <<[quoteId |-> 42, action |-> "add"]>>
  /\ Includes(getLocalFavorites(localStorage, useMockData), 42)

\* An attemptReconnect returns in this step, its probe and every call of its
\* reconciliation having succeeded.
ReconnectReturnsClean == ReconnectReturns /\ last'.op = "reconnectOk" /\ last'.net

C13_ProbeFailureFrame ==
  [][ ReconnectProbeFailed =>
        /\ reconnect.degraded => (isInFallbackMode /\ isInFallbackMode')
        /\ UNCHANGED <<isInFallbackMode, pendingSyncActions, localStorage, user_favorites>>
        /\ ~syncInProgress'
    ]_vars

\* The probe failed with the toggle of 42 still queued and 42 not in the remote set.
C13_Witness ==
  /\ last.op = "reconnectProbeFailed"
  /\ isInFallbackMode
  /\ pendingSyncActions = <<[quoteId |-> 42, action |-> "add"]>>
  /\ LocalSet = {42}
  /\ user_favorites = {}

\* C14: Scenario A.  Online with the remote succeeding, toggleFavorite(i) on an
\* i that is in neither the Local Store nor the remote set returns true and ends
\* with i in both, degraded false and pendingOps as it was.
C14_ScenarioA ==
  [][ ( /\ ToggleAdded
        /\ ~isInFallbackMode
        /\ ~InLocal(toggle.quoteId)
        /\ toggle.quoteId \notin user_favorites )
      => /\ last'.ret = TRUE /\ last'.quoteId = toggle.quoteId
         /\ InLocalNext(toggle.quoteId)
         /\ toggle.quoteId \in user_favorites'
         /\ \A q \in Items \ {toggle.quoteId} :
              /\ InLocalNext(q) = InLocal(q)
              /\ (q \in user_favorites') = (q \in user_favorites)
         /\ ~isInFallbackMode'
         /\ pendingSyncActions' = pendingSyncActions
    ]_vars

\* toggle(42) from empty sets, online: 42 in both sets.
C14_Witness ==
  /\ last.op = "toggleAdded" /\ last.quoteId = 42 /\ last.ret = TRUE
  /\ pair.quoteId = 42 /\ pair.done = 1 /\ ~pair.local /\ ~pair.remote
  /\ getLocalFavorites(localStorage, useMockData) = <<42>>
  /\ user_favorites = {42}
  /\ ~isInFallbackMode
  /\ pendingSyncActions = <<>>

\* A toggle is applied to the Local Store alone in this step: called in fallback
\* mode, or failing over to it.
LocalOnlyToggle ==
  \/ \E quoteId \in Items : ToggleFallback(quoteId)
  \/ ToggleBothFailed
  \/ ToggleCatch

\* C15: every toggle applied to the Local Store under degradation appends one
\* entry to pendingOps, {i, add} when it added i and {i, remove} when it removed
\* i, and flips i alone; nothing else changes pendingOps but the replay that
\* empties it.  So pendingOps lists those toggles in their order.
C15_PendingOpsRecordsToggles ==
  [][ /\ LocalOnlyToggle =>
           /\ isInFallbackMode'
           /\ \E q \in Items :
                /\ last'.quoteId = q
                /\ InLocalNext(q) # InLocal(q)
                /\ \A r \in Items \ {q} : InLocalNext(r) = InLocal(r)
                /\ pendingSyncActions' =
                     Append(pendingSyncActions,
                            [quoteId |-> q,
                             action |-> IF InLocalNext(q) THEN "add" ELSE "remove"])
      /\ pendingSyncActions' # pendingSyncActions =>
           \/ LocalOnlyToggle
           \/ /\ pendingSyncActions' = <<>>
              /\ ReconnectReturns /\ last'.op = "reconnectOk"
    ]_vars

\* Scenario C: degraded toggles of 42 and then of 7 from an empty Local Store.
C15_Witness ==
  /\ isInFallbackMode
  /\ last.op = "toggleFallback" /\ last.quoteId = 7 /\ last.ret = TRUE
  /\ getLocalFavorites(localStorage, useMockData) = <<42, 7>>
  /\ pendingSyncActions = <<[quoteId |-> 42, action |-> "add"],
                            [quoteId |-> 7, action |-> "add"]>>

NoDuplicate(s) == \A i \in 1..Len(s) : \A j \in 1..Len(s) : s[i] = s[j] => i = j

C17_ReconcileTwice ==
  [][ (ReconnectProbeOk /\ last.op = "reconnectOk") =>
        /\ pendingSyncActions = <<>>
        /\ reconnect'.pc = "idle"
        /\ last'.op = "reconnectOk" /\ last'.again
        /\ UNCHANGED <<localStorage, user_favorites, pendingSyncActions>>
        /\ ~isInFallbackMode'
    ]_vars

\* The second of two successful attemptReconnect in a row has returned.
C17_Witness ==
  /\ last.op = "reconnectOk" /\ last.again /\ last.net
  /\ pendingSyncActions = <<>>
  /\ ~isInFallbackMode
  /\ LocalSet = {42}
  /\ user_favorites = {42}
  /\ favoritesRelation = "view"

\* The operation that returned last left toggleFavorite or checkIfFavorited as
\* an exception.
Threw == last.op \in {"toggleThrew", "checkThrew"}

\* C18: when the stored value of the principal is not the JSON of an array, the
\* Local Store reads as the empty set and nothing is thrown: toggleFavorite and
\* checkIfFavorited return normally.
C18_CorruptStoreReadsEmpty == isLocalFavoriteThrows(storageFault) => ~Threw

\* C19: when the writes of local storage fail, toggleFavorite and
\* checkIfFavorited pass no exception to their caller, online and in fallback
\* mode.
C19_StorageWriteFailureAbsorbed == setLocalFavoritesThrows(storageFault) => ~Threw

\* C20: when the remove_favorite call of the favorites page fails, the session is
\* degraded, the quote is removed from the Local Store, and the removal is not
\* shown as failed.
C20_PageRemoveFailureFallsBack ==
  [][ (PageRemoveError \/ PageRemoveCatch) =>
        /\ isInFallbackMode'
        /\ ~InLocalNext(page.quoteId)
        /\ last'.op # "pageRemoveFailed"
    ]_vars

\* C21: once the profile has a principal id, every later call of getUserId
\* returns that id, whether or not the storage takes writes.
C21_UserIdStable ==
  \A j \in (user.gen + 1)..Len(user.returned) : user.returned[j] = user.first

\* The loops of syncPendingActions are running.
InLoops(r) == r.pc \in {"additions", "removals"}

\* C22: no step of a reconnect writes the Local Store.  When the fetch returns,
\* the adds to issue are the ids of the local set that the fetched set lacks and
\* the removes those of the fetched set that the local set lacks; every call
\* issued later is one of them, and a step of the reconnect changes the remote
\* set by that one id only.
C22_ReconcileFrame ==
  [][ /\ reconnect' # reconnect => localStorage' = localStorage
      /\ SyncFetchOk =>
           LET local == Elems(reconnect.localFavs)
               toAdd == local \ user_favorites
               toRemove == user_favorites \ local
           IN  IF toAdd = {} /\ toRemove = {}
               THEN reconnect'.pc = "idle" /\ user_favorites' = user_favorites
               ELSE /\ InLoops(reconnect')
                    /\ Elems(reconnect'.additions) = toAdd
                    /\ reconnect'.removals = toRemove
                    /\ user_favorites' = user_favorites
      /\ (InLoops(reconnect) /\ InLoops(reconnect')) =>
           /\ Elems(reconnect'.additions) \subseteq Elems(reconnect.additions)
           /\ reconnect'.removals \subseteq reconnect.removals
      /\ (reconnect' # reconnect /\ user_favorites' # user_favorites) =>
           \/ /\ reconnect.pc = "additions"
              /\ user_favorites' = user_favorites \cup {Head(reconnect.additions)}
           \/ /\ reconnect.pc = "removals"
              /\ \E q \in reconnect.removals : user_favorites' = user_favorites \ {q}
    ]_vars

\* The fetch found 7 in both sets and 42 in the local set only: one add_favorite,
\* of 42, is in flight.
C22_Witness ==
  /\ reconnect.pc = "additions"
  /\ reconnect.additions = <<42>> /\ reconnect.removals = {}
  /\ getLocalFavorites(localStorage, useMockData) = <<7, 42>>
  /\ user_favorites = {7}

\* C23: the set the fetch of the reconciliation returns is the set of rows
\* add_favorite and remove_favorite write and is_quote_favorited reads: once
\* add_favorite has added an id, the fetch returns it.
C23_FetchReadsUserFavorites ==
  [][ ToggleAdded =>
        LET reply == SelectFavorites(favoritesRelation, user_favorites')
        IN  /\ ~reply.error
            /\ toggle.quoteId \in reply.data
            /\ \A q \in Items : (q \in reply.data) = is_quote_favorited(user_favorites', q)
    ]_vars

----------------------------------------------------------------------------
\* fetchQuotes (main.js:384-412), called by init (main.js:1138) and after a quote
\* was submitted (main.js:1092, 1109).

QuotesFrame ==
  UNCHANGED <<storageFault, page, user, display, localStorage, user_favorites,
              favoritesRelation, isInFallbackMode, pendingSyncActions, syncInProgress,
              toggle, check, reconnect, last, pair>>

\* main.js:386-389: MOCK_QUOTES at once
FetchQuotesMock ==
  /\ quotes.pc = "idle"
  /\ useMockData
  /\ quotes' = [pc |-> "idle", from |-> "mock"]
  /\ UNCHANGED useMockData
  /\ QuotesFrame

\* main.js:391-395: the select of the approved quotes is issued
FetchQuotesStart ==
  /\ quotes.pc = "idle"
  /\ ~useMockData
  /\ quotes' = [quotes EXCEPT !.pc = "select"]
  /\ UNCHANGED useMockData
  /\ QuotesFrame

\* main.js:397-405: the select returned the rows
FetchQuotesOk ==
  /\ quotes.pc = "select"
  /\ quotes' = [pc |-> "idle", from |-> "remote"]
  /\ UNCHANGED useMockData
  /\ QuotesFrame

\* main.js:397, 406-411: the select returned an error or threw
FetchQuotesFailed ==
  /\ quotes.pc = "select"
  /\ useMockData' = TRUE
  /\ quotes' = [pc |-> "idle", from |-> "mock"]
  /\ QuotesFrame

\* The favorite operations of main.js, and fetchQuotes.
NextConfig ==
  \/ \E quoteId \in Items : ToggleMock(quoteId)
  \/ \E quoteId \in Items : ToggleFallback(quoteId)
  \/ \E quoteId \in Items : ToggleStart(quoteId)
  \/ ToggleAdded
  \/ ToggleAddError
  \/ ToggleRemoved
  \/ ToggleBothFailed
  \/ ToggleCatch
  \/ \E quoteId \in Items : CheckMock(quoteId)
  \/ \E quoteId \in Items : CheckFallback(quoteId)
  \/ \E quoteId \in Items : CheckStart(quoteId)
  \/ CheckReturned
  \/ CheckError
  \/ CheckCatch
  \/ FetchQuotesMock
  \/ FetchQuotesStart
  \/ FetchQuotesOk
  \/ FetchQuotesFailed

SpecConfig == Init /\ [][NextConfig]_vars

\* C27: useMockData never changes after startup, so the key of the Local Store
\* the favorite operations of the session read and write never changes.
C27_UseMockDataFixed ==
  [][ /\ useMockData' = useMockData
      /\ StorageKey(useMockData') = StorageKey(useMockData)
    ]_vars

----------------------------------------------------------------------------
\* Recovery.  A configured first visit on a database where favorites exists;
\* the toggles, attemptReconnect with its reconciliation, and fetchQuotes.

InitRecovery ==
  /\ Init
  /\ ~useMockData
  /\ user_favorites = {}
  /\ \A k \in DOMAIN localStorage : localStorage[k] = <<>>
  /\ favoritesRelation = "view"

NextRecovery ==
  \/ \E quoteId \in Items : ToggleMock(quoteId)
  \/ \E quoteId \in Items : ToggleFallback(quoteId)
  \/ \E quoteId \in Items : ToggleStart(quoteId)
  \/ ToggleAdded
  \/ ToggleAddError
  \/ ToggleRemoved
  \/ ToggleBothFailed
  \/ ToggleCatch
  \/ ReconnectIgnored
  \/ ReconnectStart
  \/ ReconnectProbeOk
  \/ ReconnectProbeFailed
  \/ SyncFetchOk
  \/ SyncFetchFailed
  \/ SyncAdditionOk
  \/ SyncAdditionError
  \/ SyncAdditionCatch
  \/ SyncRemovalOk
  \/ SyncRemovalError
  \/ SyncRemovalCatch
  \/ FetchQuotesMock
  \/ FetchQuotesStart
  \/ FetchQuotesOk
  \/ FetchQuotesFailed

\* The remote call of the toggleFavorite in flight is answered.
ToggleAnswered ==
  ToggleAdded \/ ToggleAddError \/ ToggleRemoved \/ ToggleBothFailed \/ ToggleCatch

\* The remote call of the attemptReconnect in flight is answered.
ReconnectAnswered ==
  \/ ReconnectProbeOk \/ ReconnectProbeFailed
  \/ SyncFetchOk \/ SyncFetchFailed
  \/ SyncAdditionOk \/ SyncAdditionError \/ SyncAdditionCatch
  \/ SyncRemovalOk \/ SyncRemovalError \/ SyncRemovalCatch

\* The select of the fetchQuotes in flight is answered.
FetchQuotesAnswered == FetchQuotesOk \/ FetchQuotesFailed

\* A remote call is answered with an error, or throws.
RemoteCallFails ==
  \/ ToggleAddError
  \/ ToggleBothFailed
  \/ ToggleCatch
  \/ ReconnectProbeFailed
  \/ SyncFetchFailed
  \/ SyncAdditionError
  \/ SyncAdditionCatch
  \/ SyncRemovalError
  \/ SyncRemovalCatch
  \/ FetchQuotesFailed

\* Every remote call issued is answered (its promise settles), and the user
\* keeps invoking the manual reconnect: a click that passes the guard of
\* main.js:132 issues the probe.
SpecRecovery ==
  /\ InitRecovery
  /\ [][NextRecovery]_vars
  /\ WF_vars(ToggleAnswered)
  /\ WF_vars(ReconnectAnswered)
  /\ WF_vars(FetchQuotesAnswered)
  /\ WF_vars(ReconnectStart)

Reconciled ==
  /\ ~isInFallbackMode
  /\ pendingSyncActions = <<>>
  /\ user_favorites = Elems(getLocalFavorites(localStorage, useMockData))

\* C25: if from some point on every remote call succeeds and the user keeps
\* invoking the manual reconnect, every state with degraded true is followed by
\* one with degraded false, pendingOps empty and the remote set equal to the
\* Local Store set.
C25_DegradedEventuallyReconciled ==
  (<>[][~RemoteCallFails]_vars) => (isInFallbackMode ~> Reconciled)

\* C26: a helper of the Local Store that throws in an online toggleFavorite
\* whose remote call was done leaves degraded as it was and appends nothing to
\* pendingOps.
C26_LocalThrowDoesNotDegrade ==
  [][ (ToggleAddedThrows \/ ToggleRemovedThrows) =>
        /\ isInFallbackMode' = isInFallbackMode
        /\ pendingSyncActions' = pendingSyncActions
    ]_vars

\* C28: an attemptReconnect that set syncInProgress and whose remote calls all
\* returned ends with syncInProgress false, so syncInProgress never keeps a later
\* manual reconnect from passing the guard of main.js:132.
C28_ReconnectReleasesSync ==
  [][ ReconnectReturns => ~syncInProgress' ]_vars

\* An attempt failed, and a later attemptReconnect passed the guard and issued
\* its probe.
C28_Witness ==
  /\ reconnect.pc = "probe"
  /\ syncInProgress
  /\ last.op \in {"reconnectFailed", "reconnectProbeFailed"}

\* C29: after the favorites page removed quote i, remove_favorite deleting its row, and
\* until a toggleFavorite returns, a checkIfFavorited(i) in degraded mode returns
\* false and nothing but a toggle of the user puts i back into the remote set.
C29_PageRemovalStays ==
  [][ (last.op = "pageRemoved" /\ last.hadRow) =>
        LET i == last.quoteId
        IN  /\ (last'.op = "checkFallback" /\ last'.quoteId = i) => ~last'.ret
            /\ (i \notin user_favorites /\ i \in user_favorites') => ToggleAdded
    ]_vars

----------------------------------------------------------------------------
\* displayQuotes (main.js:458-493).  It runs without an await; the model takes
\* the do-while one iteration at a time, the random index being any index of
\* the list.  Its last statement, updateFavoriteButton(currentQuoteId), starts
\* the checkIfFavorited of the Check actions.

\* main.js:479
maxAttempts == 50

DisplayFrame ==
  UNCHANGED <<useMockData, quotes, storageFault, page, user, localStorage, user_favorites,
              favoritesRelation, isInFallbackMode, pendingSyncActions, syncInProgress,
              toggle, check, reconnect, last, pair>>

\* main.js:459-465: no quote in the category
DisplayNone ==
  /\ display.pc = "idle"
  /\ display' = [NoDisplay EXCEPT !.before = display.lastDisplayedQuoteId]
  /\ DisplayFrame

\* main.js:468-475: the only quote of the category
DisplayOnly(filteredQuotes) ==
  /\ display.pc = "idle"
  /\ Len(filteredQuotes) = 1
  /\ display' = [NoDisplay EXCEPT !.filteredQuotes = filteredQuotes,
                                  !.lastDisplayedQuoteId = filteredQuotes[1],
                                  !.currentQuoteId = filteredQuotes[1],
                                  !.before = display.lastDisplayedQuoteId]
  /\ DisplayFrame

\* main.js:477-479: two quotes or more, the loop is entered
DisplayStart(filteredQuotes) ==
  /\ display.pc = "idle"
  /\ Len(filteredQuotes) > 1
  /\ display' = [display EXCEPT !.pc = "loop",
                                !.filteredQuotes = filteredQuotes,
                                !.attempts = 0,
                                !.randomQuote = 0,
                                !.before = display.lastDisplayedQuoteId]
  /\ DisplayFrame

\* main.js:482-491: one iteration, and what follows the loop when its test fails
DisplayPick(randomIndex) ==
  /\ display.pc = "loop"
  /\ randomIndex \in 1..Len(display.filteredQuotes)
  /\ LET randomQuote == display.filteredQuotes[randomIndex]
         attempts == display.attempts + 1
     IN  IF /\ randomQuote = display.lastDisplayedQuoteId
            /\ Len(display.filteredQuotes) > 1
            /\ attempts < maxAttempts
         THEN display' = [display EXCEPT !.randomQuote = randomQuote,
                                         !.attempts = attempts]
         ELSE display' = [display EXCEPT !.pc = "idle",
                                         !.randomQuote = randomQuote,
                                         !.attempts = attempts,
                                         !.lastDisplayedQuoteId = randomQuote,
                                         !.currentQuoteId = randomQuote]
  /\ DisplayFrame

NextDisplay ==
  \/ DisplayNone
  \/ \E filteredQuotes \in Arrays : DisplayOnly(filteredQuotes)
  \/ \E filteredQuotes \in Arrays : DisplayStart(filteredQuotes)
  \/ \E randomIndex \in 1..Cardinality(Items) : DisplayPick(randomIndex)

SpecDisplay == Init /\ [][NextDisplay]_vars

\* C30: a displayQuotes called with two quotes of distinct ids or more shows a
\* quote other than the one shown before it, whatever the random indexes.
C30_NeverSameQuoteTwice ==
  [][ ( /\ display.pc = "loop"
        /\ display'.pc = "idle"
        /\ Cardinality(Elems(display.filteredQuotes)) >= 2 )
      => display'.currentQuoteId # display.before
    ]_vars

====
